---------------------------- MODULE Spec2Model ----------------------------
(***************************************************************************)
(* AuctionRunnerGS (hera/wasserstein/auction_runner_gs.hpp): the           *)
(* Gauss-Seidel auction that computes the q-Wasserstein cost between two   *)
(* point sets of equal size.  The model keeps the runner's fields, the     *)
(* ledger operations, the phase loop with its epsilon scaling and          *)
(* relative-error test, and the final extraction of run_auction.           *)
(*                                                                         *)
(* Reals are modelled exactly as rationals <<numerator, denominator>> with *)
(* a positive denominator (floating-point rounding is not modelled).  The  *)
(* q-th root of the code's relative error is never taken: the error        *)
(* (c/d)^(1/q) - 1 is kept as the ratio c/d and compared with delta        *)
(* through (1 + delta)^q, the same real-number comparison.                 *)
(*                                                                         *)
(* The oracle (template parameter AO) is not part of this file: it         *)
(* answers get_optimal_bid with any item index of [0,N).  The points are   *)
(* points of the line, so that the ground distance is |a - b|.             *)
(***************************************************************************)
EXTENDS Integers, Sequences, FiniteSets

\* ------------------------------------------------------------- bounds
MaxN == 2            \* largest number of bidders (= items)
MaxCoord == 2        \* point coordinates are drawn from 0..MaxCoord
MaxPhases == 2       \* largest params.max_num_phases
MaxRounds == 4       \* num_rounds is capped here (the oracle may cycle forever)

\* ------------------------------------------------------------- state
VARIABLES
    bidders,              \* points of A, a tuple of coordinates
    items,                \* points of B
    params,               \* AuctionParams (the constructor's copy)
    DEBUG_AUCTION,        \* whether the build defines DEBUG_AUCTION
    items_to_bidders,     \* [0..N-1 -> index or k_invalid_index]
    bidders_to_items,     \* [0..N-1 -> index or k_invalid_index]
    unassigned_bidders,   \* set of bidder indices
    oracle_epsilon,       \* the oracle's epsilon (rational)
    calls,                \* how often each collaborator operation was called
    result,               \* AuctionResult
    is_distance_computed,
    phase_num,            \* loop variable of run_auction_phases
    returned,             \* what the last accessor call returned
    prices,               \* the oracle's price of every item
    round_bidder_idx,     \* local bidder_idx of run_auction_phase
    optimal_bid,          \* local of run_auction_phase: [item, value]
    last_call,            \* the last call made to the ledger or the oracle
    pc                    \* position of the program

vars == <<bidders, items, params, DEBUG_AUCTION, items_to_bidders,
          bidders_to_items, unassigned_bidders, oracle_epsilon, calls,
          result, is_distance_computed, phase_num, returned, prices,
          round_bidder_idx, optimal_bid, last_call, pc>>

\* the oracle's prices and what the call-by-call steps of CallSpec keep:
\* the other specifications answer get_optimal_bid with any item and leave
\* these alone
call_state == <<prices, round_bidder_idx, optimal_bid, last_call>>

\* ------------------------------------------------------------- numbers
k_invalid_index == -1

\* rationals <<n, d>>, d > 0
RLess(x, y) == x[1] * y[2] < y[1] * x[2]
RLeq(x, y) == x[1] * y[2] <= y[1] * x[2]
REq(x, y) == x[1] * y[2] = y[1] * x[2]
RPos(x) == x[1] > 0
RIsZero(x) == x[1] = 0
\* x / y for y # 0; the denominator is kept positive
RDiv(x, y) ==
    IF y[1] > 0 THEN <<x[1] * y[2], x[2] * y[1]>>
    ELSE <<-(x[1] * y[2]), -(x[2] * y[1])>>
\* c - n * e for integers c, n and a rational e
RSubScaled(c, n, e) == <<c * e[2] - n * e[1], e[2]>>

RECURSIVE IPow(_, _)
IPow(x, q) == IF q = 0 THEN 1 ELSE x * IPow(x, q - 1)

Abs(x) == IF x < 0 THEN -x ELSE x

\* the oracle's epsilon before set_epsilon was ever called
NoEpsilon == <<0, 1>>

\* std::numeric_limits<Real>::max() as a relative error
ErrMax == [max |-> TRUE, ratio |-> <<1, 1>>]
\* the relative error (c/d)^(1/q) - 1, kept as the ratio c/d
ErrOf(ratio) == [max |-> FALSE, ratio |-> ratio]

\* a delta larger than every relative error a run can compute, below max()
DeltaHuge == [huge |-> TRUE, val |-> <<1, 1>>]
DeltaOf(v) == [huge |-> FALSE, val |-> v]

\* err <= delta, err = (ratio)^(1/q) - 1:  ratio <= (1 + delta)^q
ErrLeqDelta(err, delta, q) ==
    IF err.max THEN FALSE
    ELSE IF delta.huge THEN TRUE
    ELSE err.ratio[1] * IPow(delta.val[2], q)
            <= IPow(delta.val[2] + delta.val[1], q) * err.ratio[2]

\* ------------------------------------------------------------- inputs
num_bidders == Len(bidders)
num_items == Len(items)
Bidders == 0 .. (num_bidders - 1)
Items == 0 .. (num_items - 1)

\* the point sets of size n the model draws from: the bidders are the points
\* 0, 1, 2, ... (clipped at MaxCoord), the items any n points of 0..MaxCoord
\* in non-decreasing order
BidderSets(n) == {[k \in 1 .. n |-> IF k - 1 < MaxCoord THEN k - 1 ELSE MaxCoord]}
ItemSets(n) ==
    {s \in [1 .. n -> 0 .. MaxCoord] : \A k \in 1 .. (n - 1) : s[k] <= s[k + 1]}

\* dist_lp of two points of the line
dist_lp(a, b) == Abs(a - b)

\* ------------------------------------------------------------- ledger
\* the ledger fields as one value: what the ledger operations read and
\* write; fault is "none", "assert" (a failed assert) or "throw"
Ledger ==
    [b2i |-> bidders_to_items, i2b |-> items_to_bidders,
     un |-> unassigned_bidders, rounds |-> result.num_rounds, fault |-> "none"]

Count(f, v) == Cardinality({x \in DOMAIN f : f[x] = v})

\* sanity_check: compiled to nothing unless DEBUG_AUCTION is defined
sanity_check(b2i, i2b) ==
    IF ~DEBUG_AUCTION THEN "none"
    ELSE IF \E b \in DOMAIN b2i :
              ~(b2i[b] = k_invalid_index \/ (b2i[b] < num_items /\ b2i[b] >= 0))
         THEN "assert"
    ELSE IF \E b \in DOMAIN b2i :
              /\ b2i[b] # k_invalid_index
              /\ (Count(b2i, b2i[b]) > 1 \/ i2b[b2i[b]] # b)
         THEN "throw"
    ELSE IF \E i \in DOMAIN i2b :
              ~(i2b[i] = k_invalid_index \/ (i2b[i] < num_items /\ i2b[i] >= 0))
         THEN "assert"
    ELSE IF \E i \in DOMAIN i2b :
              /\ i2b[i] # k_invalid_index
              /\ (Count(i2b, i2b[i]) > 1 \/ b2i[i2b[i]] # i)
         THEN "throw"
    ELSE "none"

\* assign_item_to_bidder without line 101: the old owner is not put back
\* into unassigned_bidders
assign_forgets_old_owner(L, item_idx, bidder_idx) ==
    LET old_item_owner == L.i2b[item_idx]
        b2i1 == [L.b2i EXCEPT ![bidder_idx] = item_idx]
    IN  IF L.b2i[bidder_idx] # k_invalid_index
        THEN [L EXCEPT !.rounds = L.rounds + 1, !.fault = "assert"]
        ELSE [b2i |-> IF old_item_owner # k_invalid_index
                      THEN [b2i1 EXCEPT ![old_item_owner] = k_invalid_index]
                      ELSE b2i1,
              i2b |-> [L.i2b EXCEPT ![item_idx] = bidder_idx],
              un |-> L.un \ {bidder_idx},
              rounds |-> L.rounds + 1, fault |-> "none"]

\* assign_item_to_bidder without line 100: the old owner keeps its entry
assign_keeps_old_entry(L, item_idx, bidder_idx) ==
    LET old_item_owner == L.i2b[item_idx]
    IN  IF L.b2i[bidder_idx] # k_invalid_index
        THEN [L EXCEPT !.rounds = L.rounds + 1, !.fault = "assert"]
        ELSE [b2i |-> [L.b2i EXCEPT ![bidder_idx] = item_idx],
              i2b |-> [L.i2b EXCEPT ![item_idx] = bidder_idx],
              un |-> IF old_item_owner # k_invalid_index
                     THEN (L.un \ {bidder_idx}) \cup {old_item_owner}
                     ELSE L.un \ {bidder_idx},
              rounds |-> L.rounds + 1, fault |-> "none"]

\* assign_item_to_bidder without line 96: the bidder stays in
\* unassigned_bidders
assign_keeps_bidder_unassigned(L, item_idx, bidder_idx) ==
    LET old_item_owner == L.i2b[item_idx]
        b2i1 == [L.b2i EXCEPT ![bidder_idx] = item_idx]
    IN  IF L.b2i[bidder_idx] # k_invalid_index
        THEN [L EXCEPT !.rounds = L.rounds + 1, !.fault = "assert"]
        ELSE [b2i |-> IF old_item_owner # k_invalid_index
                      THEN [b2i1 EXCEPT ![old_item_owner] = k_invalid_index]
                      ELSE b2i1,
              i2b |-> [L.i2b EXCEPT ![item_idx] = bidder_idx],
              un |-> IF old_item_owner # k_invalid_index
                     THEN L.un \cup {old_item_owner} ELSE L.un,
              rounds |-> L.rounds + 1, fault |-> "none"]

\* assign_item_to_bidder without line 94: the item does not learn its owner
assign_without_item_owner(L, item_idx, bidder_idx) ==
    LET old_item_owner == L.i2b[item_idx]
        b2i1 == [L.b2i EXCEPT ![bidder_idx] = item_idx]
    IN  IF L.b2i[bidder_idx] # k_invalid_index
        THEN [L EXCEPT !.rounds = L.rounds + 1, !.fault = "assert"]
        ELSE [b2i |-> IF old_item_owner # k_invalid_index
                      THEN [b2i1 EXCEPT ![old_item_owner] = k_invalid_index]
                      ELSE b2i1,
              i2b |-> L.i2b,
              un |-> IF old_item_owner # k_invalid_index
                     THEN (L.un \ {bidder_idx}) \cup {old_item_owner}
                     ELSE L.un \ {bidder_idx},
              rounds |-> L.rounds + 1, fault |-> "none"]

\* assign_item_to_bidder on ledger L (lines 84-103)
assign_item_to_bidder(L, item_idx, bidder_idx) ==
    LET rounds1 == L.rounds + 1
        check == sanity_check(L.b2i, L.i2b)
        old_item_owner == L.i2b[item_idx]
        b2i1 == [L.b2i EXCEPT ![bidder_idx] = item_idx]
        i2b1 == [L.i2b EXCEPT ![item_idx] = bidder_idx]
        un1 == L.un \ {bidder_idx}
    IN  IF check # "none" THEN [L EXCEPT !.rounds = rounds1, !.fault = check]
        ELSE IF L.b2i[bidder_idx] # k_invalid_index
             THEN [L EXCEPT !.rounds = rounds1, !.fault = "assert"]
        ELSE IF old_item_owner # k_invalid_index
             THEN [b2i |-> [b2i1 EXCEPT ![old_item_owner] = k_invalid_index],
                   i2b |-> i2b1,
                   un |-> un1 \cup {old_item_owner},
                   rounds |-> rounds1, fault |-> "none"]
        ELSE [b2i |-> b2i1, i2b |-> i2b1, un |-> un1,
              rounds |-> rounds1, fault |-> "none"]

\* flush_assignment without its second loop (lines 112-114):
\* items_to_bidders is not cleared
flush_keeps_item_owners(L) ==
    LET b2i1 == [b \in DOMAIN L.b2i |-> k_invalid_index]
    IN  IF L.un # {}
        THEN [L EXCEPT !.b2i = b2i1, !.fault = "assert"]
        ELSE [L EXCEPT !.b2i = b2i1, !.un = DOMAIN L.b2i]

\* flush_assignment without its third loop (lines 118-120): no bidder is
\* inserted into unassigned_bidders
flush_inserts_nobody(L) ==
    LET b2i1 == [b \in DOMAIN L.b2i |-> k_invalid_index]
        i2b1 == [i \in DOMAIN L.i2b |-> k_invalid_index]
    IN  IF L.un # {}
        THEN [L EXCEPT !.b2i = b2i1, !.i2b = i2b1, !.fault = "assert"]
        ELSE [L EXCEPT !.b2i = b2i1, !.i2b = i2b1]

\* flush_assignment on ledger L (oracle.adjust_prices is counted by the caller)
flush_assignment(L) ==
    LET b2i1 == [b \in DOMAIN L.b2i |-> k_invalid_index]
        i2b1 == [i \in DOMAIN L.i2b |-> k_invalid_index]
    IN  IF L.un # {}
        THEN [L EXCEPT !.b2i = b2i1, !.i2b = i2b1, !.fault = "assert"]
        ELSE [L EXCEPT !.b2i = b2i1, !.i2b = i2b1, !.un = DOMAIN L.b2i]

\* the pair's cost: the q-th power of the ground distance
get_item_bidder_cost(item_idx, bidder_idx) ==
    IPow(dist_lp(bidders[bidder_idx + 1], items[item_idx + 1]),
         params.wasserstein_power)

RECURSIVE SumCost(_, _)
SumCost(b2i, bs) ==
    IF bs = {} THEN 0
    ELSE LET b == CHOOSE x \in bs : TRUE
         IN  get_item_bidder_cost(b2i[b], b) + SumCost(b2i, bs \ {b})

\* getDistanceToQthPowerInternal: the cost of the ledger, or the fault
\* ("throw": an invalid index reached get_item_bidder_cost)
getDistanceToQthPowerInternal(b2i, i2b) ==
    LET check == sanity_check(b2i, i2b)
    IN  IF check # "none" THEN [fault |-> check, cost |-> 0]
        ELSE IF \E b \in DOMAIN b2i : b2i[b] = k_invalid_index
             THEN [fault |-> "throw", cost |-> 0]
        ELSE [fault |-> "none", cost |-> SumCost(b2i, DOMAIN b2i)]

\* ------------------------------------------------------------- oracle
\* oracle.max_val_: the largest pairwise cost of the two point sets
oracle_max_val ==
    LET vals == {get_item_bidder_cost(i, b) : i \in Items, b \in Bidders}
    IN  CHOOSE v \in vals : \A w \in vals : w <= v

\* oracle.get_optimal_bid(bidder_idx): the item indices it may answer
get_optimal_bid(bidder_idx) == Items

\* caller-facing ids of the points (they differ from the indices)
get_bidder_id(bidder_idx) == 10 + bidder_idx
get_item_id(item_idx) == 20 + item_idx
\* what a read through an invalid item index can yield
GarbageIds == {get_item_id(i) : i \in Items} \cup {k_invalid_index}

NoCalls ==
    [flush_assignment |-> 0, adjust_prices |-> 0, get_optimal_bid |-> 0,
     set_price |-> 0, set_epsilon |-> 0]

\* ------------------------------------------------------------- inputs
InitialEpsilons == {<<-1, 1>>, <<0, 1>>, <<1, 1>>}
CommonRatios == {<<0, 1>>, <<1, 2>>}
Deltas == {DeltaOf(<<1, 1>>), DeltaHuge}
Powers == {1, 2}

ParamSets ==
    [wasserstein_power : Powers,
     delta : Deltas,
     initial_epsilon : InitialEpsilons,
     epsilon_common_ratio : CommonRatios,
     max_num_phases : 0 .. MaxPhases,
     tolerate_max_iter_exceeded : BOOLEAN,
     return_matching : BOOLEAN]

\* AuctionResult as default-constructed
NewResult ==
    [cost |-> 0,
     distance |-> [radicand |-> 0, degree |-> 1],
     num_rounds |-> 0,
     num_phases |-> 0,
     start_epsilon |-> NoEpsilon,
     final_epsilon |-> NoEpsilon,
     final_relative_error |-> ErrOf(<<1, 1>>),
     matching |-> <<>>]

\* a returned Real: the root of the given degree of a rational number
\* (degree 1: the number itself)
RealOf(x) == [radicand |-> x, degree |-> 1]

\* no bid was received yet, no call was made yet
NoBid == [item |-> k_invalid_index, value |-> 0]
NoCall == [op |-> "none", item |-> k_invalid_index, bidder |-> k_invalid_index]

\* no accessor was called yet
NoReturn == [op |-> "none", fault |-> "none", value |-> RealOf(0)]

\* the member initialisers of the constructor (lines 59-66)
Init ==
    /\ \E n \in 1 .. MaxN :
          /\ bidders \in BidderSets(n)
          /\ items \in ItemSets(n)
          /\ items_to_bidders = [i \in 0 .. (n - 1) |-> k_invalid_index]
          /\ bidders_to_items = [b \in 0 .. (n - 1) |-> k_invalid_index]
          /\ prices = [i \in 0 .. (n - 1) |-> 0]
    /\ params \in ParamSets
    /\ DEBUG_AUCTION \in BOOLEAN
    /\ unassigned_bidders = {}
    /\ oracle_epsilon = NoEpsilon
    /\ calls = NoCalls
    /\ result = NewResult
    /\ is_distance_computed = FALSE
    /\ phase_num = 0
    /\ returned = NoReturn
    /\ round_bidder_idx = k_invalid_index
    /\ optimal_bid = NoBid
    /\ last_call = NoCall
    /\ pc = "start"

\* where a fault takes the program
FaultPc(fault) == IF fault = "assert" THEN "aborted" ELSE "threw"

\* the constructor's default of initial_epsilon taken as max_val_ / 2
DefaultedEpsilon_half(initial_epsilon) ==
    IF RIsZero(initial_epsilon) THEN <<oracle_max_val, 2>> ELSE initial_epsilon

\* the constructor's default of initial_epsilon (lines 75-76)
DefaultedEpsilon(initial_epsilon) ==
    IF RIsZero(initial_epsilon) THEN <<oracle_max_val, 4>> ELSE initial_epsilon

\* the constructor's body (lines 69-80)
Construct ==
    /\ pc = "start"
    /\ LET ratio1 == IF RIsZero(params.epsilon_common_ratio)
                     THEN <<5, 1>> ELSE params.epsilon_common_ratio
           eps1 == DefaultedEpsilon(params.initial_epsilon)
       IN  /\ params' = [params EXCEPT !.epsilon_common_ratio = ratio1,
                                       !.initial_epsilon = eps1]
           /\ pc' = IF RPos(eps1) /\ RPos(ratio1) /\ num_bidders = num_items
                    THEN "constructed" ELSE "aborted"
    /\ UNCHANGED <<returned, call_state>>
    /\ UNCHANGED <<bidders, items, DEBUG_AUCTION, items_to_bidders,
                   bidders_to_items, unassigned_bidders, oracle_epsilon,
                   calls, result, is_distance_computed, phase_num>>

\* run_auction's test for the single-point case, wrongly never taken
single_point_never == FALSE

\* run_auction's test for the single-point case (line 163)
single_point == num_bidders = 1

\* run_auction with one bidder (lines 163-165)
RunAuctionSingle ==
    /\ pc = "constructed"
    /\ single_point
    /\ LET L == assign_item_to_bidder(Ledger, 0, 0)
       IN  /\ bidders_to_items' = L.b2i
           /\ items_to_bidders' = L.i2b
           /\ unassigned_bidders' = L.un
           /\ IF L.fault # "none"
              THEN /\ result' = [result EXCEPT !.num_rounds = L.rounds]
                   /\ pc' = FaultPc(L.fault)
              ELSE /\ result' = [result EXCEPT
                                   !.num_rounds = L.rounds,
                                   !.cost = get_item_bidder_cost(0, 0)]
                   /\ pc' = "finish"
    /\ UNCHANGED <<returned, call_state>>
    /\ UNCHANGED <<bidders, items, params, DEBUG_AUCTION, oracle_epsilon,
                   calls, is_distance_computed, phase_num>>

\* run_auction_phases up to its loop (lines 130-136)
RunAuctionPhasesBegin ==
    /\ pc = "constructed"
    /\ ~single_point
    /\ oracle_epsilon' = params.initial_epsilon
    /\ calls' = [calls EXCEPT !.set_epsilon = @ + 1]
    /\ result' = [result EXCEPT
                    !.final_relative_error = ErrMax,
                    !.start_epsilon = params.initial_epsilon,
                    !.final_epsilon = params.initial_epsilon]
    /\ phase_num' = 0
    /\ pc' = IF RPos(params.initial_epsilon) THEN "phase_loop" ELSE "aborted"
    /\ UNCHANGED <<returned, call_state>>
    /\ UNCHANGED <<bidders, items, params, DEBUG_AUCTION, items_to_bidders,
                   bidders_to_items, unassigned_bidders, is_distance_computed>>

\* the loop test of run_auction_phases, off by one
loop_continues_off_by_one == phase_num <= params.max_num_phases

\* the loop test of run_auction_phases (line 136)
loop_continues == phase_num < params.max_num_phases

\* one more phase: flush_assignment, then run_auction_phase up to its loop
\* (lines 136-138, 107-124, 196)
PhaseBegin ==
    /\ pc = "phase_loop"
    /\ loop_continues
    /\ LET L == flush_assignment(Ledger)
       IN  /\ bidders_to_items' = L.b2i
           /\ items_to_bidders' = L.i2b
           /\ unassigned_bidders' = L.un
           /\ IF L.fault # "none"
              THEN /\ pc' = FaultPc(L.fault)
                   /\ UNCHANGED <<calls, result>>
              ELSE /\ calls' = [calls EXCEPT !.flush_assignment = @ + 1,
                                             !.adjust_prices = @ + 1]
                   /\ result' = [result EXCEPT !.num_phases = @ + 1]
                   /\ pc' = "bidding"
    /\ UNCHANGED <<returned, call_state>>
    /\ UNCHANGED <<bidders, items, params, DEBUG_AUCTION, oracle_epsilon,
                   is_distance_computed, phase_num>>

\* the perfect-matching test that ends run_auction_phase under
\* DEBUG_AUCTION (lines 206-214)
PhaseEndFault(b2i) ==
    IF DEBUG_AUCTION
       /\ \E b \in DOMAIN b2i : b2i[b] < 0 \/ b2i[b] >= num_bidders
    THEN "throw" ELSE "none"

\* one round of run_auction_phase (lines 197-204)
BiddingRound ==
    /\ pc = "bidding"
    /\ result.num_rounds < MaxRounds
    /\ \E bidder_idx \in unassigned_bidders :
       \E optimal_item_idx \in get_optimal_bid(bidder_idx) :
          LET L == assign_item_to_bidder(Ledger, optimal_item_idx, bidder_idx)
          IN  /\ bidders_to_items' = L.b2i
              /\ items_to_bidders' = L.i2b
              /\ unassigned_bidders' = L.un
              /\ result' = [result EXCEPT !.num_rounds = L.rounds]
              /\ IF L.fault # "none"
                 THEN /\ pc' = FaultPc(L.fault)
                      /\ calls' = [calls EXCEPT !.get_optimal_bid = @ + 1]
                 ELSE /\ calls' = [calls EXCEPT !.get_optimal_bid = @ + 1,
                                                !.set_price = @ + 1]
                      /\ pc' = IF L.un # {} THEN "bidding"
                               ELSE IF PhaseEndFault(L.b2i) # "none"
                                    THEN FaultPc(PhaseEndFault(L.b2i))
                               ELSE "eval"
    /\ UNCHANGED <<returned, call_state>>
    /\ UNCHANGED <<bidders, items, params, DEBUG_AUCTION, oracle_epsilon,
                   is_distance_computed, phase_num>>

\* the relative-error test with < in place of <= at line 147
RelativeErrorTest_strict(current_result, epsilon, old_error) ==
    LET denominator == RSubScaled(current_result, num_bidders, epsilon)
        error == ErrOf(<<current_result * denominator[2], denominator[1]>>)
    IN  IF RPos(denominator)
        THEN [final_relative_error |-> error,
              break |-> /\ ErrLeqDelta(error, params.delta,
                                       params.wasserstein_power)
                        /\ ~(~params.delta.huge
                             /\ error.ratio[1] * IPow(params.delta.val[2],
                                                      params.wasserstein_power)
                                = IPow(params.delta.val[2] + params.delta.val[1],
                                       params.wasserstein_power) * error.ratio[2])]
        ELSE [final_relative_error |-> old_error, break |-> FALSE]

\* the relative-error test with the denominator of line 140 taken as
\* current_result - epsilon (num_bidders forgotten)
RelativeErrorTest_unscaled(current_result, epsilon, old_error) ==
    LET denominator == RSubScaled(current_result, 1, epsilon)
        error == ErrOf(<<current_result * denominator[2], denominator[1]>>)
    IN  IF RPos(denominator)
        THEN [final_relative_error |-> error,
              break |-> ErrLeqDelta(error, params.delta,
                                    params.wasserstein_power)]
        ELSE [final_relative_error |-> old_error, break |-> FALSE]

\* the relative-error test of one phase (lines 140-150): the error the
\* phase records (the old one when the denominator is not positive) and
\* whether the loop breaks
RelativeErrorTest(current_result, epsilon, old_error) ==
    LET denominator == RSubScaled(current_result, num_bidders, epsilon)
        error == ErrOf(<<current_result * denominator[2], denominator[1]>>)
    IN  IF RPos(denominator)
        THEN [final_relative_error |-> error,
              break |-> ErrLeqDelta(error, params.delta,
                                    params.wasserstein_power)]
        ELSE [final_relative_error |-> old_error, break |-> FALSE]

\* the epsilon of the next phase, multiplied by the ratio
DecreasedEpsilon_multiplied(epsilon) ==
    <<epsilon[1] * params.epsilon_common_ratio[1],
      epsilon[2] * params.epsilon_common_ratio[2]>>

\* the epsilon of the next phase (line 152)
DecreasedEpsilon(epsilon) == RDiv(epsilon, params.epsilon_common_ratio)

\* the end of one loop iteration of run_auction_phases (lines 139-154); a
\* break goes on to line 156
EvalPhase ==
    /\ pc = "eval"
    /\ LET d == getDistanceToQthPowerInternal(bidders_to_items, items_to_bidders)
           t == RelativeErrorTest(d.cost, oracle_epsilon,
                                  result.final_relative_error)
       IN  IF d.fault # "none"
           THEN /\ pc' = FaultPc(d.fault)
                /\ UNCHANGED <<result, oracle_epsilon, calls, phase_num>>
           ELSE IF t.break
           THEN /\ result' = [result EXCEPT
                                !.cost = d.cost,
                                !.final_relative_error = t.final_relative_error]
                /\ pc' = "phases_returned"
                /\ UNCHANGED <<oracle_epsilon, calls, phase_num>>
           ELSE /\ oracle_epsilon' = DecreasedEpsilon(oracle_epsilon)
                /\ calls' = [calls EXCEPT !.set_epsilon = @ + 1]
                /\ result' = [result EXCEPT
                                !.cost = d.cost,
                                !.final_relative_error = t.final_relative_error,
                                !.final_epsilon = DecreasedEpsilon(oracle_epsilon)]
                /\ phase_num' = phase_num + 1
                /\ pc' = "phase_loop"
    /\ UNCHANGED <<returned, call_state>>
    /\ UNCHANGED <<bidders, items, params, DEBUG_AUCTION, items_to_bidders,
                   bidders_to_items, unassigned_bidders, is_distance_computed>>

\* the loop of run_auction_phases ends at the phase cap (lines 136, 156)
PhasesExhausted ==
    /\ pc = "phase_loop"
    /\ ~loop_continues
    /\ pc' = "phases_returned"
    /\ UNCHANGED <<returned, call_state>>
    /\ UNCHANGED <<bidders, items, params, DEBUG_AUCTION, items_to_bidders,
                   bidders_to_items, unassigned_bidders, oracle_epsilon, calls,
                   result, is_distance_computed, phase_num>>

\* whether run_auction throws after run_auction_phases (lines 169-176)
MaxIterThrows ==
    /\ DEBUG_AUCTION
    /\ ~ErrLeqDelta(result.final_relative_error, params.delta,
                    params.wasserstein_power)
    /\ ~params.tolerate_max_iter_exceeded

\* run_auction after run_auction_phases returned (lines 167-177)
AfterPhases ==
    /\ pc = "phases_returned"
    /\ pc' = IF MaxIterThrows THEN "threw" ELSE "finish"
    /\ UNCHANGED <<returned, call_state>>
    /\ UNCHANGED <<bidders, items, params, DEBUG_AUCTION, items_to_bidders,
                   bidders_to_items, unassigned_bidders, oracle_epsilon, calls,
                   result, is_distance_computed, phase_num>>

\* result.compute_distance(q): the q-th root of the cost, kept unevaluated
compute_distance(cost, q) == [radicand |-> cost, degree |-> q]

\* the matching list of lines 183-188; a bidder without an item reads
\* items[k_invalid_index], which yields garbage
MatchingWith(garbage) ==
    [k \in 1 .. num_bidders |->
        <<get_bidder_id(k - 1),
          IF bidders_to_items[k - 1] = k_invalid_index THEN garbage
          ELSE get_item_id(bidders_to_items[k - 1])>>]

\* the end of run_auction (lines 179-189)
Finish ==
    /\ pc = "finish"
    /\ is_distance_computed' = TRUE
    /\ LET dist == compute_distance(result.cost, params.wasserstein_power)
       IN  IF ~params.return_matching
           THEN /\ result' = [result EXCEPT !.distance = dist]
                /\ pc' = "done"
           ELSE IF \A b \in Bidders : bidders_to_items[b] # k_invalid_index
           THEN /\ result' = [result EXCEPT !.distance = dist,
                                            !.matching = MatchingWith(0)]
                /\ pc' = "done"
           ELSE \/ /\ result' = [result EXCEPT !.distance = dist]
                   /\ pc' = "crashed"
                \/ \E g \in GarbageIds :
                      /\ result' = [result EXCEPT !.distance = dist,
                                                  !.matching = MatchingWith(g)]
                      /\ pc' = "done"
    /\ UNCHANGED <<returned, call_state>>
    /\ UNCHANGED <<bidders, items, params, DEBUG_AUCTION, items_to_bidders,
                   bidders_to_items, unassigned_bidders, oracle_epsilon, calls,
                   phase_num>>

\* the runner exists and none of its member functions is running
Idle == pc \in {"constructed", "done", "threw"}

\* get_wasserstein_cost without its assertion
get_wasserstein_cost_unguarded ==
    /\ Idle
    /\ UNCHANGED call_state
    /\ returned' = [op |-> "get_wasserstein_cost", fault |-> "none",
                    value |-> RealOf(result.cost)]
    /\ UNCHANGED <<bidders, items, params, DEBUG_AUCTION, items_to_bidders,
                   bidders_to_items, unassigned_bidders, oracle_epsilon, calls,
                   result, is_distance_computed, phase_num, pc>>

\* get_wasserstein_cost (lines 250-255)
get_wasserstein_cost ==
    /\ Idle
    /\ UNCHANGED call_state
    /\ IF is_distance_computed
       THEN /\ returned' = [op |-> "get_wasserstein_cost", fault |-> "none",
                            value |-> RealOf(result.cost)]
            /\ pc' = pc
       ELSE /\ returned' = [op |-> "get_wasserstein_cost", fault |-> "assert",
                            value |-> RealOf(0)]
            /\ pc' = FaultPc("assert")
    /\ UNCHANGED <<bidders, items, params, DEBUG_AUCTION, items_to_bidders,
                   bidders_to_items, unassigned_bidders, oracle_epsilon, calls,
                   result, is_distance_computed, phase_num>>

\* get_wasserstein_distance (lines 243-248): the q-th root of the cost
get_wasserstein_distance ==
    /\ Idle
    /\ UNCHANGED call_state
    /\ IF is_distance_computed
       THEN /\ returned' = [op |-> "get_wasserstein_distance", fault |-> "none",
                            value |-> compute_distance(result.cost,
                                                       params.wasserstein_power)]
            /\ pc' = pc
       ELSE /\ returned' = [op |-> "get_wasserstein_distance",
                            fault |-> "assert", value |-> RealOf(0)]
            /\ pc' = FaultPc("assert")
    /\ UNCHANGED <<bidders, items, params, DEBUG_AUCTION, items_to_bidders,
                   bidders_to_items, unassigned_bidders, oracle_epsilon, calls,
                   result, is_distance_computed, phase_num>>

Next ==
    \/ Construct
    \/ RunAuctionSingle
    \/ RunAuctionPhasesBegin
    \/ PhaseBegin
    \/ BiddingRound
    \/ EvalPhase
    \/ PhasesExhausted
    \/ AfterPhases
    \/ Finish
    \/ get_wasserstein_cost
    \/ get_wasserstein_distance

Spec == Init /\ [][Next]_vars

\* ------------------------------------------------------------- ledger alone
\* The ledger driven directly: any sequence of flush_assignment and of
\* assign_item_to_bidder calls made with an unassigned bidder, from the
\* state the constructor leaves.
LedgerParams ==
    [wasserstein_power |-> 1, delta |-> DeltaOf(<<1, 1>>),
     initial_epsilon |-> <<1, 1>>, epsilon_common_ratio |-> <<5, 1>>,
     max_num_phases |-> MaxPhases, tolerate_max_iter_exceeded |-> FALSE,
     return_matching |-> FALSE]

LedgerInit ==
    /\ \E n \in 1 .. (MaxN + 1) :
          /\ bidders \in BidderSets(n)
          /\ items = bidders
          /\ items_to_bidders = [i \in 0 .. (n - 1) |-> k_invalid_index]
          /\ bidders_to_items = [b \in 0 .. (n - 1) |-> k_invalid_index]
          /\ prices = [i \in 0 .. (n - 1) |-> 0]
    /\ params = LedgerParams
    /\ DEBUG_AUCTION \in BOOLEAN
    /\ unassigned_bidders = {}
    /\ oracle_epsilon = NoEpsilon
    /\ calls = NoCalls
    /\ result = NewResult
    /\ is_distance_computed = FALSE
    /\ phase_num = 0
    /\ returned = NoReturn
    /\ round_bidder_idx = k_invalid_index
    /\ optimal_bid = NoBid
    /\ last_call = NoCall
    /\ pc = "ledger"

LedgerAssign ==
    /\ pc = "ledger"
    /\ result.num_rounds < MaxRounds
    /\ \E item_idx \in Items :
       \E bidder_idx \in {b \in Bidders : bidders_to_items[b] = k_invalid_index} :
          LET L == assign_item_to_bidder(Ledger, item_idx, bidder_idx)
          IN  /\ bidders_to_items' = L.b2i
              /\ items_to_bidders' = L.i2b
              /\ unassigned_bidders' = L.un
              /\ result' = [result EXCEPT !.num_rounds = L.rounds]
              /\ pc' = IF L.fault # "none" THEN FaultPc(L.fault) ELSE "ledger"
    /\ UNCHANGED <<returned, call_state>>
    /\ UNCHANGED <<bidders, items, params, DEBUG_AUCTION, oracle_epsilon,
                   calls, is_distance_computed, phase_num>>

LedgerFlush ==
    /\ pc = "ledger"
    /\ calls.flush_assignment < MaxPhases
    /\ LET L == flush_assignment(Ledger)
       IN  /\ bidders_to_items' = L.b2i
           /\ items_to_bidders' = L.i2b
           /\ unassigned_bidders' = L.un
           /\ IF L.fault # "none"
              THEN /\ pc' = FaultPc(L.fault)
                   /\ UNCHANGED calls
              ELSE /\ calls' = [calls EXCEPT !.flush_assignment = @ + 1,
                                             !.adjust_prices = @ + 1]
                   /\ pc' = "ledger"
    /\ UNCHANGED <<returned, call_state>>
    /\ UNCHANGED <<bidders, items, params, DEBUG_AUCTION, oracle_epsilon,
                   result, is_distance_computed, phase_num>>

LedgerNext == LedgerAssign \/ LedgerFlush

LedgerSpec == LedgerInit /\ [][LedgerNext]_vars

\* ------------------------------------------------------------- call by call
\* run_auction_phases followed call by call, with an oracle that keeps
\* prices: for a bidder it answers a cheapest item at the current prices
\* and the bid that makes this item as expensive as the second cheapest
\* one, plus epsilon.
\* The prices are kept exactly, as integers in units of 1 / PriceDen: every
\* epsilon of a run is a multiple of this unit.
PriceDen == 4 * IPow(5, MaxPhases)
PriceUnits(x) == (x[1] * PriceDen) \div x[2]

\* what the item costs the bidder at the current prices
item_value(item_idx, bidder_idx) ==
    get_item_bidder_cost(item_idx, bidder_idx) * PriceDen + prices[item_idx]

\* the smallest of a non-empty set of integers
IMin(S) == CHOOSE v \in S : \A w \in S : v <= w

\* oracle.get_optimal_bid(bidder_idx) with prices: the (item, bid value)
\* pairs it may answer (any of the cheapest items when several tie)
price_oracle_bid(bidder_idx) ==
    {[item |-> best,
      value |-> prices[best]
                  + (IMin({item_value(i, bidder_idx) : i \in Items \ {best}})
                     - item_value(best, bidder_idx))
                  + PriceUnits(oracle_epsilon)] :
       best \in {i \in Items : \A j \in Items :
                    item_value(i, bidder_idx) <= item_value(j, bidder_idx)}}

\* oracle.adjust_prices(): every price is lowered by the smallest one
adjust_prices ==
    LET min_price == IMin({prices[i] : i \in Items})
    IN  [i \in Items |-> prices[i] - min_price]

\* a call, as last_call keeps it
CallOf(op, item_idx, bidder_idx) ==
    [op |-> op, item |-> item_idx, bidder |-> bidder_idx]

\* the parameter sets of the call-by-call runs (tolerate_max_iter_exceeded
\* and return_matching are not read by run_auction_phases)
CallParamSets ==
    {p \in ParamSets : ~p.tolerate_max_iter_exceeded /\ ~p.return_matching}

\* the call-by-call runs are those of the build with DEBUG_AUCTION, which
\* makes the same calls as the other one and checks the ledger in between
CallInit ==
    /\ \E n \in 2 .. MaxN :
          /\ bidders \in BidderSets(n)
          /\ items \in ItemSets(n)
          /\ items_to_bidders = [i \in 0 .. (n - 1) |-> k_invalid_index]
          /\ bidders_to_items = [b \in 0 .. (n - 1) |-> k_invalid_index]
          /\ prices = [i \in 0 .. (n - 1) |-> 0]
    /\ params \in CallParamSets
    /\ DEBUG_AUCTION = TRUE
    /\ unassigned_bidders = {}
    /\ oracle_epsilon = NoEpsilon
    /\ calls = NoCalls
    /\ result = NewResult
    /\ is_distance_computed = FALSE
    /\ phase_num = 0
    /\ returned = NoReturn
    /\ round_bidder_idx = k_invalid_index
    /\ optimal_bid = NoBid
    /\ last_call = NoCall
    /\ pc = "start"

\* run_auction_phases before its loop (lines 130-135)
CallSetEpsilon ==
    /\ pc = "constructed"
    /\ ~single_point
    /\ oracle_epsilon' = params.initial_epsilon
    /\ calls' = [calls EXCEPT !.set_epsilon = @ + 1]
    /\ last_call' = CallOf("set_epsilon", k_invalid_index, k_invalid_index)
    /\ result' = [result EXCEPT
                    !.final_relative_error = ErrMax,
                    !.start_epsilon = params.initial_epsilon,
                    !.final_epsilon = params.initial_epsilon]
    /\ pc' = IF RPos(params.initial_epsilon) THEN "loop_test" ELSE "aborted"
    /\ UNCHANGED <<bidders, items, params, DEBUG_AUCTION, items_to_bidders,
                   bidders_to_items, unassigned_bidders, is_distance_computed,
                   phase_num, returned, prices, round_bidder_idx, optimal_bid>>

\* the loop test of run_auction_phases (line 136; line 156 at the exit)
CallLoopTest ==
    /\ pc = "loop_test"
    /\ pc' = IF loop_continues THEN "flush" ELSE "phases_returned"
    /\ UNCHANGED <<bidders, items, params, DEBUG_AUCTION, items_to_bidders,
                   bidders_to_items, unassigned_bidders, oracle_epsilon, calls,
                   result, is_distance_computed, phase_num, returned,
                   call_state>>

\* flush_assignment up to its oracle call (lines 109-121)
CallResetLedger ==
    /\ pc = "flush"
    /\ LET L == flush_assignment(Ledger)
       IN  /\ bidders_to_items' = L.b2i
           /\ items_to_bidders' = L.i2b
           /\ unassigned_bidders' = L.un
           /\ pc' = IF L.fault # "none" THEN FaultPc(L.fault)
                    ELSE "adjust_prices"
    /\ calls' = [calls EXCEPT !.flush_assignment = @ + 1]
    /\ last_call' = CallOf("flush_assignment", k_invalid_index, k_invalid_index)
    /\ UNCHANGED <<bidders, items, params, DEBUG_AUCTION, oracle_epsilon,
                   result, is_distance_computed, phase_num, returned, prices,
                   round_bidder_idx, optimal_bid>>

\* the end of flush_assignment and the entry of run_auction_phase
\* (lines 123, 196)
CallAdjustPrices ==
    /\ pc = "adjust_prices"
    /\ prices' = adjust_prices
    /\ calls' = [calls EXCEPT !.adjust_prices = @ + 1]
    /\ last_call' = CallOf("adjust_prices", k_invalid_index, k_invalid_index)
    /\ result' = [result EXCEPT !.num_phases = @ + 1]
    /\ pc' = "get_optimal_bid"
    /\ UNCHANGED <<bidders, items, params, DEBUG_AUCTION, items_to_bidders,
                   bidders_to_items, unassigned_bidders, oracle_epsilon,
                   is_distance_computed, phase_num, returned,
                   round_bidder_idx, optimal_bid>>

\* one round of run_auction_phase, its oracle query (lines 198-201)
CallGetOptimalBid ==
    /\ pc = "get_optimal_bid"
    /\ \E b \in unassigned_bidders :
       \E bid \in price_oracle_bid(b) :
          /\ round_bidder_idx' = b
          /\ optimal_bid' = bid
          /\ last_call' = CallOf("get_optimal_bid", bid.item, b)
    /\ calls' = [calls EXCEPT !.get_optimal_bid = @ + 1]
    /\ pc' = "assign"
    /\ UNCHANGED <<bidders, items, params, DEBUG_AUCTION, items_to_bidders,
                   bidders_to_items, unassigned_bidders, oracle_epsilon,
                   result, is_distance_computed, phase_num, returned, prices>>

\* one round of run_auction_phase, its ledger update (line 202)
CallAssign ==
    /\ pc = "assign"
    /\ LET L == assign_item_to_bidder(Ledger, optimal_bid.item, round_bidder_idx)
       IN  /\ bidders_to_items' = L.b2i
           /\ items_to_bidders' = L.i2b
           /\ unassigned_bidders' = L.un
           /\ result' = [result EXCEPT !.num_rounds = L.rounds]
           /\ pc' = IF L.fault # "none" THEN FaultPc(L.fault) ELSE "set_price"
    /\ last_call' = CallOf("assign_item_to_bidder", optimal_bid.item,
                           round_bidder_idx)
    /\ UNCHANGED <<bidders, items, params, DEBUG_AUCTION, oracle_epsilon,
                   calls, is_distance_computed, phase_num, returned, prices,
                   round_bidder_idx, optimal_bid>>

\* the loop test of run_auction_phase, never taken
rounds_go_on_never(un) == FALSE

\* the loop test of run_auction_phase (line 204)
rounds_go_on(un) == un # {}

\* the price update of a round made on item 0, whatever the bid was
CallSetPrice_first_item ==
    /\ pc = "set_price"
    /\ prices' = [prices EXCEPT ![0] = optimal_bid.value]
    /\ calls' = [calls EXCEPT !.set_price = @ + 1]
    /\ last_call' = CallOf("set_price", 0, k_invalid_index)
    /\ pc' = IF rounds_go_on(unassigned_bidders) THEN "get_optimal_bid"
             ELSE IF PhaseEndFault(bidders_to_items) # "none"
                  THEN FaultPc(PhaseEndFault(bidders_to_items))
             ELSE "cost"
    /\ UNCHANGED <<bidders, items, params, DEBUG_AUCTION, items_to_bidders,
                   bidders_to_items, unassigned_bidders, oracle_epsilon,
                   result, is_distance_computed, phase_num, returned,
                   round_bidder_idx, optimal_bid>>

\* one round of run_auction_phase, its price update, and the loop test
\* that follows (lines 203-214)
CallSetPrice ==
    /\ pc = "set_price"
    /\ prices' = [prices EXCEPT ![optimal_bid.item] = optimal_bid.value]
    /\ calls' = [calls EXCEPT !.set_price = @ + 1]
    /\ last_call' = CallOf("set_price", optimal_bid.item, k_invalid_index)
    /\ pc' = IF rounds_go_on(unassigned_bidders) THEN "get_optimal_bid"
             ELSE IF PhaseEndFault(bidders_to_items) # "none"
                  THEN FaultPc(PhaseEndFault(bidders_to_items))
             ELSE "cost"
    /\ UNCHANGED <<bidders, items, params, DEBUG_AUCTION, items_to_bidders,
                   bidders_to_items, unassigned_bidders, oracle_epsilon,
                   result, is_distance_computed, phase_num, returned,
                   round_bidder_idx, optimal_bid>>

\* the cost and the relative-error test of a phase (lines 139-150)
CallEvaluate ==
    /\ pc = "cost"
    /\ LET d == getDistanceToQthPowerInternal(bidders_to_items, items_to_bidders)
           t == RelativeErrorTest(d.cost, oracle_epsilon,
                                  result.final_relative_error)
       IN  IF d.fault # "none"
           THEN /\ pc' = FaultPc(d.fault)
                /\ UNCHANGED result
           ELSE /\ result' = [result EXCEPT
                                !.cost = d.cost,
                                !.final_relative_error = t.final_relative_error]
                /\ pc' = IF t.break THEN "phases_returned" ELSE "scale"
    /\ last_call' = CallOf("getDistanceToQthPowerInternal", k_invalid_index,
                           k_invalid_index)
    /\ UNCHANGED <<bidders, items, params, DEBUG_AUCTION, items_to_bidders,
                   bidders_to_items, unassigned_bidders, oracle_epsilon, calls,
                   is_distance_computed, phase_num, returned, prices,
                   round_bidder_idx, optimal_bid>>

\* the epsilon of the next iteration (lines 152-153, then ++phase_num)
CallScaleEpsilon ==
    /\ pc = "scale"
    /\ oracle_epsilon' = DecreasedEpsilon(oracle_epsilon)
    /\ calls' = [calls EXCEPT !.set_epsilon = @ + 1]
    /\ last_call' = CallOf("set_epsilon", k_invalid_index, k_invalid_index)
    /\ result' = [result EXCEPT
                    !.final_epsilon = DecreasedEpsilon(oracle_epsilon)]
    /\ phase_num' = phase_num + 1
    /\ pc' = "loop_test"
    /\ UNCHANGED <<bidders, items, params, DEBUG_AUCTION, items_to_bidders,
                   bidders_to_items, unassigned_bidders, is_distance_computed,
                   returned, prices, round_bidder_idx, optimal_bid>>

CallNext ==
    \/ Construct
    \/ CallSetEpsilon
    \/ CallLoopTest
    \/ CallResetLedger
    \/ CallAdjustPrices
    \/ CallGetOptimalBid
    \/ CallAssign
    \/ CallSetPrice
    \/ CallEvaluate
    \/ CallScaleEpsilon

CallSpec == CallInit /\ [][CallNext]_vars

\* the program is never suspended: it takes its next step as long as it
\* has one
CallFairSpec == CallSpec /\ WF_vars(CallNext)

\* ------------------------------------------------------------- claims
\* the ledger is a perfect matching: every bidder holds a valid item, the
\* two arrays are inverse to each other and every item is held exactly once
PerfectMatching ==
    /\ \A b \in Bidders :
          /\ bidders_to_items[b] \in Items
          /\ items_to_bidders[bidders_to_items[b]] = b
    /\ \A i \in Items : Count(bidders_to_items, i) = 1

\* C1: for N >= 2, whenever run_auction_phase has returned (the program is
\* at the cost evaluation that follows it), the ledger is a perfect matching.
C1_PhaseEndsInPerfectMatching ==
    (pc = "eval" /\ num_bidders >= 2) => PerfectMatching

\* a phase has ended after a bid displaced an owner
C1_Witness ==
    /\ pc = "eval"
    /\ num_bidders >= 2
    /\ result.num_phases = 1
    /\ result.num_rounds > num_bidders

\* C2: in every state reached by flush_assignment and assign_item_to_bidder
\* calls made with an unassigned bidder, the two arrays agree in both
\* directions and no valid index occurs twice in either of them.
C2_LedgerConsistent ==
    /\ \A b \in Bidders :
          bidders_to_items[b] # k_invalid_index =>
             /\ bidders_to_items[b] \in Items
             /\ items_to_bidders[bidders_to_items[b]] = b
             /\ Count(bidders_to_items, bidders_to_items[b]) = 1
    /\ \A i \in Items :
          items_to_bidders[i] # k_invalid_index =>
             /\ items_to_bidders[i] \in Bidders
             /\ bidders_to_items[items_to_bidders[i]] = i
             /\ Count(items_to_bidders, items_to_bidders[i]) = 1

\* after a flush, a bid has displaced an owner, who waits unassigned
C2_Witness ==
    /\ pc = "ledger"
    /\ calls.flush_assignment >= 1
    /\ result.num_rounds >= 2
    /\ \E b \in unassigned_bidders, i \in Items :
          /\ bidders_to_items[b] = k_invalid_index
          /\ items_to_bidders[i] \notin {k_invalid_index, b}
    /\ Cardinality({i \in Items : items_to_bidders[i] # k_invalid_index}) = 1

\* the cost of the ledger's matching, summed pair by pair: the q-th power
\* of the ground distance of every bidder to the item it holds
RECURSIVE MatchingCost(_)
MatchingCost(n) ==
    IF n = 0 THEN 0
    ELSE IPow(Abs(bidders[n] - items[bidders_to_items[n - 1] + 1]),
              params.wasserstein_power) + MatchingCost(n - 1)

\* run_auction_phases has returned, or run_auction went on after it
AfterPhaseLoop == pc \in {"phases_returned", "finish", "done", "crashed"}
\* the loop of run_auction_phases ran to the phase cap (no phase broke out)
LoopExhausted == ~(phase_num < params.max_num_phases)

\* C3: after run_auction returns, result.cost is the sum over all bidders of
\* the cost of the pair (bidder, its item) in the final ledger, on every
\* path and for every max_num_phases.
C3_CostIsLedgerCost ==
    pc = "done" =>
       /\ \A b \in Bidders : bidders_to_items[b] \in Items
       /\ result.cost = MatchingCost(num_bidders)

\* C4: the loop breaks exactly when the phase just completed has
\* denominator = cost - N * epsilon > 0 and a relative error <= delta;
\* otherwise epsilon is divided by epsilon_common_ratio, a phase with
\* denominator <= 0 records no error, and the loop goes on to the next
\* phase unless max_num_phases is exhausted.
C4_DenominatorPositive ==
    MatchingCost(num_bidders) * oracle_epsilon[2] > num_bidders * oracle_epsilon[1]

\* (cost / denominator)^(1/q) - 1 <= delta, as cost <= (1 + delta)^q * denominator
C4_ErrorWithinDelta ==
    \/ params.delta.huge
    \/ MatchingCost(num_bidders) * oracle_epsilon[2]
          * IPow(params.delta.val[2], params.wasserstein_power)
         <= IPow(params.delta.val[2] + params.delta.val[1], params.wasserstein_power)
            * (MatchingCost(num_bidders) * oracle_epsilon[2]
               - num_bidders * oracle_epsilon[1])

C4_PhaseLoopDecision ==
    [][/\ pc = "eval" =>
            IF C4_DenominatorPositive /\ C4_ErrorWithinDelta
            THEN /\ pc' = "phases_returned"
                 /\ oracle_epsilon' = oracle_epsilon
                 /\ phase_num' = phase_num
            ELSE /\ pc' = "phase_loop"
                 /\ phase_num' = phase_num + 1
                 /\ REq(<<oracle_epsilon'[1] * params.epsilon_common_ratio[1],
                          oracle_epsilon'[2] * params.epsilon_common_ratio[2]>>,
                        oracle_epsilon)
                 /\ (~C4_DenominatorPositive =>
                       result'.final_relative_error = result.final_relative_error)
       /\ pc = "phase_loop" =>
            pc' = IF phase_num < params.max_num_phases
                  THEN "bidding" ELSE "phases_returned"]_vars

\* the second phase of a run broke out of the loop on a finite delta, the
\* first one did not
C4_Witness ==
    /\ pc = "phases_returned"
    /\ ~LoopExhausted
    /\ result.num_phases = 2
    /\ ~params.delta.huge

\* C5: when the loop exhausts max_num_phases without meeting delta and
\* tolerate_max_iter_exceeded is false, run_auction fails: it never reaches
\* the extraction (line 179) and never marks the distance as computed.
\* Stated for the runs that completed at least one phase.
C5_ExhaustedIntolerantRunFails ==
    (/\ num_bidders >= 2
     /\ result.num_phases >= 1
     /\ ~params.tolerate_max_iter_exceeded
     /\ LoopExhausted
     /\ ~ErrLeqDelta(result.final_relative_error, params.delta,
                     params.wasserstein_power))
    => (pc \notin {"finish", "done", "crashed"} /\ ~is_distance_computed)

\* C6: when the loop exhausts max_num_phases without meeting delta and
\* tolerate_max_iter_exceeded is true, run_auction completes normally with
\* final_relative_error > delta, the ledger a perfect matching and
\* result.cost the cost of that matching.
C6_ExhaustedTolerantRunCompletes ==
    (num_bidders >= 2 /\ params.tolerate_max_iter_exceeded
       /\ AfterPhaseLoop /\ LoopExhausted)
    => /\ pc # "crashed"
       /\ pc = "done" =>
            /\ ~ErrLeqDelta(result.final_relative_error, params.delta,
                            params.wasserstein_power)
            /\ PerfectMatching
            /\ result.cost = MatchingCost(num_bidders)

\* C7: for every parameter set the constructor accepts, the epsilon values
\* of the phases of one run are non-increasing and strictly positive: the
\* epsilon set for a phase that is still to run is positive and not larger
\* than the epsilon of the phase just completed.
C7_EpsilonNonIncreasing ==
    [][(pc = "eval" /\ pc' = "phase_loop" /\ phase_num' < params.max_num_phases) =>
          (RLeq(oracle_epsilon', oracle_epsilon) /\ RPos(oracle_epsilon'))]_vars

\* C8: for N = 1 no phase runs (num_phases stays 0, flush_assignment,
\* adjust_prices and get_optimal_bid are never called, epsilon is never
\* set), one assign call gives item 0 to bidder 0, and the cost is
\* distance(A[0], B[0])^q.
C8_SinglePoint ==
    num_bidders = 1 =>
       /\ result.num_phases = 0
       /\ calls.flush_assignment = 0
       /\ calls.adjust_prices = 0
       /\ calls.get_optimal_bid = 0
       /\ calls.set_epsilon = 0
       /\ oracle_epsilon = NoEpsilon
       /\ pc \in {"start", "constructed", "aborted", "finish", "done"}
       /\ pc \in {"finish", "done"} =>
            /\ result.num_rounds = 1
            /\ bidders_to_items[0] = 0
            /\ items_to_bidders[0] = 0
            /\ result.cost = IPow(Abs(bidders[1] - items[1]), params.wasserstein_power)

\* a single-point run has returned a cost where the power q matters
C8_Witness ==
    /\ num_bidders = 1
    /\ pc = "done"
    /\ params.wasserstein_power = 2
    /\ result.cost > 2

\* C9 as stated: with an arbitrarily large delta, N >= 2 and
\* max_num_phases >= 1, the run ends after exactly one phase.
C9_HugeDeltaOnePhase ==
    (params.delta.huge /\ num_bidders >= 2 /\ params.max_num_phases >= 1
       /\ AfterPhaseLoop)
    => result.num_phases = 1

\* C9 amended: with an arbitrarily large delta, N >= 2 and
\* max_num_phases >= 1, the run ends after exactly one phase if and only if
\* the first phase ends with cost - N * epsilon > 0 or max_num_phases = 1;
\* a first phase with cost <= N * epsilon is followed by a second one.
C9_HugeDeltaOnePhaseIffDenominatorPositive ==
    [][(params.delta.huge /\ num_bidders >= 2) =>
          /\ (pc = "eval" /\ result.num_phases = 1) =>
                IF C4_DenominatorPositive
                THEN pc' = "phases_returned" /\ result'.num_phases = 1
                ELSE pc' = "phase_loop" /\ phase_num' = 1
          /\ (pc = "phase_loop" /\ result.num_phases = 1) =>
                IF params.max_num_phases = 1
                THEN pc' = "phases_returned" /\ result'.num_phases = 1
                ELSE pc' = "bidding" /\ result'.num_phases = 2
          /\ AfterPhaseLoop => result'.num_phases = result.num_phases]_vars

\* with a huge delta and a cap of two phases, the loop broke after one
C9_Witness ==
    /\ params.delta.huge
    /\ num_bidders >= 2
    /\ params.max_num_phases = 2
    /\ pc = "phases_returned"
    /\ result.num_phases = 1

\* a run is over, or stopped in a fault
Terminated == pc \in {"done", "threw", "aborted", "crashed"}

\* what is left of the run outside the bidding rounds: a natural number
\* that every step outside a phase lowers
Remaining ==
    LET left == params.max_num_phases - phase_num
    IN  CASE pc = "start" -> 3 * params.max_num_phases + 7
          [] pc = "constructed" -> 3 * params.max_num_phases + 6
          [] pc = "phase_loop" -> 3 * left + 5
          [] pc = "bidding" -> 3 * left + 4
          [] pc = "eval" -> 3 * left + 3
          [] pc = "phases_returned" -> 2
          [] pc = "finish" -> 1
          [] OTHER -> 0

\* C10: num_phases never exceeds max_num_phases, it grows by exactly one per
\* run_auction_phase call (one call per loop iteration, after one flush),
\* and run_auction_phases returns if every phase does: outside the bidding
\* rounds the program is never stuck and every step lowers Remaining, which
\* is never negative.
C10_PhasesBounded ==
    /\ [](/\ result.num_phases <= params.max_num_phases
          /\ result.num_phases = calls.flush_assignment
          /\ pc \in {"bidding", "eval"} => result.num_phases = phase_num + 1
          /\ pc = "phase_loop" => result.num_phases = phase_num
          /\ Remaining >= 0
          /\ (Terminated \/ pc = "bidding" \/ ENABLED Next))
    /\ [][/\ result'.num_phases =
               result.num_phases
                 + (IF pc = "phase_loop" /\ pc' = "bidding" THEN 1 ELSE 0)
          /\ (~Terminated /\ (pc # "bidding" \/ pc' # "bidding")) =>
                Remaining' < Remaining]_vars

\* a run has executed as many phases as max_num_phases allows, more than one
C10_Witness ==
    /\ pc = "done"
    /\ params.max_num_phases = MaxPhases
    /\ result.num_phases = params.max_num_phases

\* the first phase of a run is in progress, or has just been evaluated
InFirstPhase ==
    \/ pc = "phase_loop" /\ phase_num = 0
    \/ pc \in {"bidding", "eval"} /\ result.num_phases = 1

\* C11 as stated: a configured initial_epsilon that is zero or negative is
\* replaced by oracle.max_val_ / 4, a positive one is left unchanged.
C11_NonPositiveInitialEpsilonDefaults ==
    [][(pc = "start" /\ num_bidders >= 2) =>
          REq(params'.initial_epsilon,
              IF ~RPos(params.initial_epsilon) THEN <<oracle_max_val, 4>>
              ELSE params.initial_epsilon)]_vars

\* C11 amended: a configured initial_epsilon of zero is replaced by
\* oracle.max_val_ / 4 and a positive one is left unchanged; a negative one
\* is left as it is and stops the constructor at its assertion, so that no
\* phase runs.  The first phase runs at the constructor's value, which is
\* positive and is what start_epsilon records.
C11_ZeroInitialEpsilonDefaults ==
    /\ [][/\ pc = "start" =>
               /\ REq(params'.initial_epsilon,
                      IF RIsZero(params.initial_epsilon)
                      THEN <<oracle_max_val, 4>> ELSE params.initial_epsilon)
               /\ ~RPos(params'.initial_epsilon) => pc' = "aborted"
          /\ pc # "start" => params'.initial_epsilon = params.initial_epsilon
          /\ (pc = "constructed" /\ pc' = "phase_loop") =>
               /\ oracle_epsilon' = params.initial_epsilon
               /\ result'.start_epsilon = params.initial_epsilon]_vars
    /\ [](InFirstPhase =>
             /\ oracle_epsilon = params.initial_epsilon
             /\ result.start_epsilon = params.initial_epsilon
             /\ RPos(oracle_epsilon))
    /\ []((num_bidders >= 2 /\ pc \in {"phases_returned", "finish", "done"}) =>
             result.start_epsilon = params.initial_epsilon)

\* the first phase of a run is bidding at the defaulted epsilon max_val_ / 4
C11_Witness ==
    /\ pc = "bidding"
    /\ result.num_phases = 1
    /\ result.num_rounds >= 1
    /\ oracle_epsilon = <<oracle_max_val, 4>>
    /\ result.start_epsilon = <<oracle_max_val, 4>>

C13_MatchingIsLedger ==
    /\ pc # "crashed"
    /\ pc = "done" =>
          IF params.return_matching
          THEN /\ Len(result.matching) = num_bidders
               /\ \A b \in Bidders :
                     /\ bidders_to_items[b] \in Items
                     /\ result.matching[b + 1] =
                          <<get_bidder_id(b), get_item_id(bidders_to_items[b])>>
               /\ {result.matching[k][2] : k \in 1 .. num_bidders}
                     = {get_item_id(i) : i \in Items}
          ELSE result.matching = <<>>
    /\ pc # "done" => result.matching = <<>>

\* C14: assign_item_to_bidder(item, bidder), called with bidder unassigned,
\* ends with bidders_to_items[bidder] = item, items_to_bidders[item] = bidder
\* and bidder not in unassigned_bidders; an old owner of item has its entry
\* cleared and is in unassigned_bidders; every other entry of both arrays
\* and every other member of unassigned_bidders is unchanged, and num_rounds
\* grows by exactly 1.  Every assign step is the step of some (item, bidder).
C14_AssignFrame ==
    [][result'.num_rounds # result.num_rounds =>
         \E item \in Items :
         \E bidder \in {b \in Bidders : bidders_to_items[b] = k_invalid_index} :
            LET old == items_to_bidders[item]
                touched == IF old = k_invalid_index THEN {bidder}
                           ELSE {bidder, old}
            IN  /\ bidders_to_items'[bidder] = item
                /\ items_to_bidders'[item] = bidder
                /\ bidder \notin unassigned_bidders'
                /\ old # k_invalid_index =>
                      /\ old # bidder
                      /\ bidders_to_items'[old] = k_invalid_index
                      /\ old \in unassigned_bidders'
                /\ \A b \in Bidders \ touched :
                      /\ bidders_to_items'[b] = bidders_to_items[b]
                      /\ b \in unassigned_bidders' <=> b \in unassigned_bidders
                /\ \A i \in Items \ {item} :
                      items_to_bidders'[i] = items_to_bidders[i]
                /\ result'.num_rounds = result.num_rounds + 1
                /\ pc' = pc]_vars

\* an assign has just displaced an owner, who is unassigned again, while
\* another bidder keeps its item
C14_Witness ==
    /\ pc = "ledger"
    /\ num_bidders >= 3
    /\ calls.flush_assignment = 0
    /\ result.num_rounds = 3
    /\ Cardinality(unassigned_bidders) = 1
    /\ Cardinality({i \in Items : items_to_bidders[i] # k_invalid_index}) = 2

\* C15: at every flush_assignment call of the phase loop, the first one
\* included, unassigned_bidders is empty, so that the assertion of
\* flush_assignment does not fail; after the call every entry of both
\* arrays is the sentinel and unassigned_bidders is the set of all bidders.
C15_FlushFindsEmptySet ==
    /\ []((pc = "phase_loop" /\ phase_num < params.max_num_phases) =>
             unassigned_bidders = {})
    /\ [][(pc = "phase_loop" /\ phase_num < params.max_num_phases) =>
             /\ pc' = "bidding"
             /\ calls'.flush_assignment = calls.flush_assignment + 1
             /\ \A b \in Bidders : bidders_to_items'[b] = k_invalid_index
             /\ \A i \in Items : items_to_bidders'[i] = k_invalid_index
             /\ unassigned_bidders' = Bidders]_vars

\* the second phase of a run has just reset a ledger that held a matching
C15_Witness ==
    /\ pc = "bidding"
    /\ calls.flush_assignment = 2
    /\ result.num_rounds >= num_bidders
    /\ unassigned_bidders = Bidders
    /\ \A i \in Items : items_to_bidders[i] = k_invalid_index

\* the orders in which two consecutive calls may follow each other
C16_Order ==
    {<<"none", "set_epsilon">>,
     <<"set_epsilon", "flush_assignment">>,
     <<"flush_assignment", "adjust_prices">>,
     <<"adjust_prices", "get_optimal_bid">>,
     <<"get_optimal_bid", "assign_item_to_bidder">>,
     <<"assign_item_to_bidder", "set_price">>,
     <<"set_price", "get_optimal_bid">>,
     <<"set_price", "getDistanceToQthPowerInternal">>,
     <<"getDistanceToQthPowerInternal", "set_epsilon">>}

\* C16: in every run with N >= 2 a phase is the ledger reset, then one
\* adjust_prices, then the rounds; a round is get_optimal_bid(b) for a b of
\* unassigned_bidders, then assign(item, b), then set_price(item, bid value)
\* for the same item, with no other call in between; the cost is evaluated
\* only after the last round (unassigned_bidders is empty), and epsilon
\* changes only by a set_epsilon made before the first phase or after an
\* evaluation, never inside a phase.
C16_CallOrder ==
    /\ [][IF last_call' # last_call
          THEN /\ <<last_call.op, last_call'.op>> \in C16_Order
               /\ last_call'.op = "get_optimal_bid" =>
                     /\ last_call'.bidder \in unassigned_bidders
                     /\ last_call'.item \in Items
               /\ last_call'.op = "assign_item_to_bidder" =>
                     /\ last_call'.item = last_call.item
                     /\ last_call'.bidder = last_call.bidder
                     /\ bidders_to_items'[last_call.bidder] = last_call.item
               /\ last_call'.op = "set_price" =>
                     /\ last_call'.item = last_call.item
                     /\ prices'[last_call.item] = optimal_bid.value
                     /\ \A i \in Items \ {last_call.item} :
                           prices'[i] = prices[i]
               /\ last_call'.op = "getDistanceToQthPowerInternal" =>
                     unassigned_bidders = {}
               /\ (last_call.op = "set_price"
                     /\ last_call'.op = "get_optimal_bid") =>
                     unassigned_bidders # {}
               /\ last_call'.op \notin {"set_price", "adjust_prices"} =>
                     prices' = prices
               /\ last_call'.op # "set_epsilon" =>
                     oracle_epsilon' = oracle_epsilon
          ELSE /\ calls' = calls
               /\ prices' = prices
               /\ oracle_epsilon' = oracle_epsilon
               /\ bidders_to_items' = bidders_to_items
               /\ items_to_bidders' = items_to_bidders
               /\ result' = result]_vars
    /\ [](pc \in {"get_optimal_bid", "assign", "set_price", "cost"} =>
             /\ calls.flush_assignment = result.num_phases
             /\ calls.adjust_prices = result.num_phases
             /\ calls.set_epsilon = result.num_phases)

\* the second phase of a run is in a round that follows a displacement
C16_Witness ==
    /\ last_call.op = "set_price"
    /\ result.num_phases = 2
    /\ unassigned_bidders # {}
    /\ \E i \in Items : items_to_bidders[i] # k_invalid_index
    /\ Cardinality({i \in Items : items_to_bidders[i] # k_invalid_index})
          + Cardinality(unassigned_bidders) = num_bidders
    /\ calls.set_price >= 2 * num_bidders

\* C17: every phase terminates: from the reset ledger, at a positive
\* epsilon that stays fixed, with an oracle that answers a cheapest item
\* and a bid that raises its price by at least epsilon, the bidding loop
\* reaches an empty unassigned_bidders and returns, and it returns only
\* then.
C17_PhaseTerminates ==
    /\ [](pc = "cost" => unassigned_bidders = {})
    /\ [](pc \in {"adjust_prices", "get_optimal_bid", "assign", "set_price"} =>
             RPos(oracle_epsilon))
    /\ [][/\ (pc = "set_price" /\ unassigned_bidders # {}) =>
               pc' = "get_optimal_bid"
          /\ pc = "set_price" =>
               /\ PriceUnits(oracle_epsilon) * oracle_epsilon[2]
                    = oracle_epsilon[1] * PriceDen
               /\ prices'[optimal_bid.item]
                    >= prices[optimal_bid.item] + PriceUnits(oracle_epsilon)
          /\ pc \in {"get_optimal_bid", "assign", "set_price"} =>
               oracle_epsilon' = oracle_epsilon]_vars
    /\ (pc = "adjust_prices") ~> (pc = "cost")

\* a phase has returned after more rounds than there are bidders
C17_Witness ==
    /\ pc = "cost"
    /\ unassigned_bidders = {}
    /\ result.num_phases = 1
    /\ result.num_rounds > num_bidders

\* unassigned_bidders is the set of the bidders without an item
UnassignedAreUnmatched ==
    \A b \in Bidders :
       b \in unassigned_bidders <=> bidders_to_items[b] = k_invalid_index

\* C18 as stated: in every state from construction to the end of the run,
\* b is in unassigned_bidders if and only if bidders_to_items[b] is the
\* sentinel.
C18_UnassignedSetIsUnmatchedSet ==
    pc \notin {"start", "aborted", "threw", "crashed"} => UnassignedAreUnmatched

\* C18 amended: from the first flush_assignment to the end of the run, b is
\* in unassigned_bidders if and only if bidders_to_items[b] is the sentinel;
\* before the first flush_assignment (from construction on, and for the
\* whole run when N = 1 or no phase runs) unassigned_bidders is empty,
\* whatever the entries are.  The bidder taken in a round is unassigned and
\* the precondition assertion of assign_item_to_bidder never fails.
C18_UnassignedSetIsUnmatchedSetAfterFlush ==
    /\ [](IF calls.flush_assignment >= 1 THEN UnassignedAreUnmatched
          ELSE unassigned_bidders = {})
    /\ [](pc \in {"start", "constructed"} =>
             \A b \in Bidders : bidders_to_items[b] = k_invalid_index)
    /\ [][result'.num_rounds # result.num_rounds =>
             /\ result'.num_rounds = result.num_rounds + 1
             /\ pc' \notin {"aborted", "threw"}
             /\ \E b \in Bidders :
                   /\ bidders_to_items[b] = k_invalid_index
                   /\ bidders_to_items'[b] # k_invalid_index
                   /\ pc = "bidding" => b \in unassigned_bidders]_vars

\* inside a phase, a displaced bidder waits in unassigned_bidders while
\* another one holds an item
C18_Witness ==
    /\ pc = "bidding"
    /\ calls.flush_assignment >= 1
    /\ unassigned_bidders # {}
    /\ unassigned_bidders # Bidders
    /\ result.num_rounds >= 2

\* the items that have an owner
OwnedItems == {i \in Items : items_to_bidders[i] # k_invalid_index}

\* C19: within a phase an owned item never becomes ownerless again: over
\* the rounds of a phase the set of owned items only grows, the size of
\* unassigned_bidders is N minus the number of owned items, and a round
\* either lowers that size by exactly one (bid on a free item) or leaves it
\* unchanged (bid that displaces an owner).
C19_OwnedItemsOnlyGrow ==
    /\ [](pc \in {"bidding", "eval"} =>
             Cardinality(unassigned_bidders)
                = num_bidders - Cardinality(OwnedItems))
    /\ [][(pc = "bidding" /\ result'.num_rounds # result.num_rounds) =>
             \E item \in Items :
                /\ items_to_bidders'[item] # items_to_bidders[item]
                /\ \A i \in Items \ {item} :
                      items_to_bidders'[i] = items_to_bidders[i]
                /\ OwnedItems \subseteq OwnedItems'
                /\ IF items_to_bidders[item] = k_invalid_index
                   THEN /\ OwnedItems' = OwnedItems \cup {item}
                        /\ Cardinality(unassigned_bidders')
                             = Cardinality(unassigned_bidders) - 1
                   ELSE /\ OwnedItems' = OwnedItems
                        /\ Cardinality(unassigned_bidders')
                             = Cardinality(unassigned_bidders)]_vars

\* the second round of a phase displaced the owner of the only owned item
C19_Witness ==
    /\ pc = "bidding"
    /\ result.num_phases = 1
    /\ result.num_rounds = 2
    /\ Cardinality(OwnedItems) = 1
    /\ Cardinality(unassigned_bidders) = num_bidders - 1

\* epsilon = start_epsilon / epsilon_common_ratio^k
EpsilonAfterScalings(epsilon, k) ==
    REq(<<epsilon[1] * IPow(params.epsilon_common_ratio[1], k),
          epsilon[2] * IPow(params.epsilon_common_ratio[2], k)>>,
        result.start_epsilon)

\* C20 as stated: after run_auction_phases returns having run at least one
\* phase, final_epsilon is the epsilon of the last completed phase,
\* start_epsilon / epsilon_common_ratio^(num_phases - 1), whether the loop
\* stopped by convergence or at max_num_phases.
C20_FinalEpsilonOfLastPhase ==
    (num_bidders >= 2 /\ AfterPhaseLoop /\ result.num_phases >= 1) =>
       EpsilonAfterScalings(result.final_epsilon, result.num_phases - 1)

\* C20 amended: after run_auction_phases returns, final_epsilon is the
\* oracle's epsilon at that moment: the epsilon of the last completed
\* phase, start_epsilon / epsilon_common_ratio^(num_phases - 1), when the
\* loop stopped by convergence, and the epsilon already set for the next
\* phase, start_epsilon / epsilon_common_ratio^num_phases, when it stopped
\* at max_num_phases.
C20_FinalEpsilonIsOracleEpsilon ==
    (num_bidders >= 2 /\ AfterPhaseLoop) =>
       /\ result.final_epsilon = oracle_epsilon
       /\ IF LoopExhausted
          THEN EpsilonAfterScalings(result.final_epsilon, result.num_phases)
          ELSE /\ result.num_phases >= 1
               /\ EpsilonAfterScalings(result.final_epsilon,
                                       result.num_phases - 1)

\* run_auction_phases has returned at the phase cap, after two phases
C20_Witness ==
    /\ pc = "phases_returned"
    /\ LoopExhausted
    /\ result.num_phases = 2
    /\ ~REq(result.final_epsilon, result.start_epsilon)

====
